---- MODULE Spec2Model ----
(***************************************************************************)
(* Verification model of the xalbrain splitting-solver core:               *)
(*   - src/xalbrain/cellsolver.py        cell (ODE) solvers                *)
(*   - src/xalbrain/monodomainsolver.py  monodomain (PDE) solvers          *)
(*   - src/xalbrain/cellmodels/*.py      cell models, region dispatch      *)
(*   - src/beatadjoint/utils.py          end_of_time                       *)
(*                                                                         *)
(* Times are exact integers counted in ticks of 1e-16, so that             *)
(* DOLFIN_EPS = 3.0e-16 is 3 ticks and the tolerance 1.e-12 of the         *)
(* monodomain timestep cache is 10000 ticks.  The time handle holds        *)
(* t0 + theta*(t1 - t0); to keep theta = 0.5 exact it is stored in half    *)
(* ticks (twice the time).  A field (dolfin Function) is abstracted to a   *)
(* small integer that identifies its coefficient vector; the output of an  *)
(* external solve is any field value.                                      *)
(***************************************************************************)
EXTENDS Integers, Sequences, FiniteSets, TLC

\* ------------------------------------------------------------------------
\* Bounds of the model
\* ------------------------------------------------------------------------
MaxT0 == 1
MaxDt == 2
MaxSpan == 10
MaxField == 1
MaxSteps == 4
MaxDtMult == 2
MaxMonoSteps == 3
MaxMonoSpan == 3
MaxEotT == 50
MaxEotCalls == 3
MaxSetCalls == 2
NumDofs == 2
MaxOffset == 1
MaxUpdates == 3
MaxTag == 3
MaxModels == 2
MaxRegionCalls == 2
MaxTimeSteps == 2
MaxRank == 1
MaxRankTag == 1

\* ------------------------------------------------------------------------
\* Program constants
\* ------------------------------------------------------------------------
\* dolfin.DOLFIN_EPS = 3.0e-16, in ticks
DOLFIN_EPS == 3
\* parameters.add("theta", 0.5), in halves
Theta2 == 1
\* the tolerance 1.e-12 of timestep_unchanged, in ticks
TimestepTol == 10000

FieldVals == 0..MaxField
T0Values == 0..MaxT0
\* timesteps and time spans that floating point resolves: larger than
\* machine epsilon
DtValues == (DOLFIN_EPS + 1)..(DOLFIN_EPS + MaxDt)
\* the dt argument of solve: <<>> is None, <<d>> is the number d
DtArgs == {<<>>} \cup {<<d>> : d \in DtValues}

CellSolverKinds == {"BasicCardiacODESolver", "CardiacODESolver", "MultiCellSolver"}

VARIABLES
    kind,       \* class of the cell solver
    vs_,        \* previous solution field
    vs,         \* current solution field
    time,       \* value of the time handle self._time (half ticks)
    gen,        \* generator returned by solve: "none", "created" (not
                \* started), "suspended" (at the yield), "done" (ended)
    g_t0,       \* argument t0 of solve
    g_t1,       \* argument t1 of solve
    g_dt,       \* argument dt of solve (element of DtArgs)
    cur,        \* interval (_t0, _t1) of the loop in solve
    yielded,    \* intervals yielded so far by this generator
    yielded_vs, \* second component of each element yielded so far: the
                \* object, and the value it had at the yield
    gen_error,  \* exception with which the generator ended, "none" if none
    nsteps,     \* number of calls of step since construction
    step_in,    \* vs_ at entry of the most recent call of step that returned
    step_out,   \* vs_ at return of that call
    step_iv,    \* the interval (t0, t1) of that call
    attempts,   \* number of calls of step made by this generator
    completed,  \* output of the last step of this generator that returned,
                \* the previous field it was created on if none did
    fail_prev,  \* vs_ when a step of this generator raised
    start,      \* the values of the fields when the generator was created
    fields,     \* the objects the attributes vs_ and vs are bound to
    sf_first,   \* result of the first call of solution_fields()
    sf_last     \* result of the most recent call of solution_fields()

cellhist == <<attempts, completed, fail_prev, start>>
cellobjs == <<fields, sf_first, sf_last>>
cellvars == <<kind, vs_, vs, time, gen, g_t0, g_t1, g_dt, cur, yielded,
              yielded_vs, gen_error, nsteps, step_in, step_out, step_iv, cellhist,
              cellobjs>>

\* the monodomain solver
VARIABLES
    m_kind,     \* class of the monodomain solver
    v_is_Function, \* isinstance(self.v_, df.Function)
    v_,         \* previous potential field
    v,          \* current potential field
    m_time,     \* value of the time handle self._time (half ticks)
    solver_type, \* parameters["linear_solver_type"]
    use_custom_preconditioner, \* parameters["use_custom_preconditioner"]
    timestep,   \* self._timestep, the Constant k_n of the stored forms
    lhs_matrix, \* self._lhs_matrix: the timestep it was assembled with
    prec_matrix, \* self._prec_matrix: the timestep it was assembled with,
                \* 0 if there is none
    rhs_vector, \* self._rhs_vector: the step that assembled it (0: none)
                \* and the timestep it was assembled with
    m_nsteps,   \* number of calls of step since construction
    h_dt,       \* dt = t1 - t0 of the most recent call of step
    h_before,   \* self._timestep at entry of the most recent call of step
    h_assembled, \* number of assemblies of self._lhs in that call
    h_prev_dt,  \* h_dt of the call before
    h_prev_assembled, \* h_assembled of the call before
    h_rebuilt_dt, \* dt of the most recent call of step that assembled
                \* self._lhs, default_timestep if none did
    s_lhs,      \* operator given to linear_solver.solve in that call
    s_rhs,      \* right-hand side given to linear_solver.solve in that call
    m_last,     \* value of v_ at entry and of v at exit of that call
    m_gen,      \* generator returned by solve, as gen above
    m_t0,       \* argument t0 of solve
    m_t1,       \* argument t1 of solve
    m_dt,       \* argument dt of solve (element of MonoDtArgs)
    m_cur,      \* interval (_t0, _t1) of the loop in solve
    m_yielded,  \* intervals yielded so far by this generator
    m_error     \* exception with which the generator ended, "none" if none

monosolver == <<v_, v, m_time, timestep, lhs_matrix, prec_matrix, rhs_vector,
                m_nsteps, h_dt, h_before, h_assembled, h_prev_dt,
                h_prev_assembled, h_rebuilt_dt, s_lhs, s_rhs, m_last>>
monoconfig == <<m_kind, v_is_Function, solver_type, use_custom_preconditioner>>
monogen == <<m_gen, m_t0, m_t1, m_dt, m_cur, m_yielded, m_error>>
monovars == <<monoconfig, monosolver, monogen>>

\* the boundary test end_of_time
VARIABLES
    eot_T,      \* argument T
    eot_t1,     \* argument t1
    eot_dt,     \* argument dt
    eot_t0,     \* argument t0 of the most recent call
    eot_result, \* result of the most recent call
    eot_prev,   \* result of the call before
    eot_calls   \* number of calls

eotvars == <<eot_T, eot_t1, eot_dt, eot_t0, eot_result, eot_prev, eot_calls>>

\* a cell model (CellModel, AdexManual) and a field its update hook acts on
VARIABLES
    parameters, \* self._parameters: map from names to values
    initial_conditions, \* self._initial_conditions: map from names to values
    cm_calls,   \* number of calls of set_parameters / set_initial_conditions
    cm_call,    \* the most recent of these calls, "none" if none
    cm_name,    \* the name given to that call
    cm_printed, \* that call reported through error(), which prints
    cm_raised,  \* that call ended in an exception
    h_parameters, \* self._parameters at entry of that call
    h_initial_conditions, \* self._initial_conditions at entry of that call
    u,          \* the field vs given to update: per dof the pair (V, w)
    u0,         \* the field before the first call of update
    u_in,       \* the field at entry of the most recent call of update
    updates     \* number of consecutive calls of update

modelvars == <<parameters, initial_conditions, cm_calls, cm_call, cm_name,
               cm_printed, cm_raised, h_parameters, h_initial_conditions>>
fieldvars == <<u, u0, u_in, updates>>
cmvars == <<modelvars, fieldvars>>

\* a region dispatcher (MultiCellModel) and a solver built on it
VARIABLES
    markers,    \* the tags that occur in the marker data of the mesh
    r_model,    \* "none", or "MultiCellModel" once it is constructed
    cell_models, \* self._cell_models: per model its num_states()
    keys,       \* self._keys: tuple of the registered tags
    r_solver,   \* "none", the class of the solver constructed on the model,
                \* or the exception its constructor raised
    valid_cell_tags, \* argument of MultiCellSolver.__init__
    r_vs_,      \* previous field: per tag of the mesh the components
                \* (v, s_0, .., s_{n-1}) on the dofs of that region
    r_vs,       \* current field
    r_calls,    \* number of calls of step
    d_call,     \* the most recent call of the dispatcher: "none", "F", "I"
    d_index,    \* its argument index: <<>> is None, <<i>> the tag i
    d_printed,  \* that call reported through error(), which prints
    d_raised,   \* exception raised by that call, "none" if it returned
    d_value,    \* number of the cell model whose F or I it returned, 0 if
                \* it returned none
    r_error     \* exception raised by the most recent call of step

dispatchvars == <<d_call, d_index, d_printed, d_raised, d_value>>
regionvars == <<markers, r_model, cell_models, keys, r_solver,
                valid_cell_tags, r_vs_, r_vs, r_calls, r_error, dispatchvars>>

\* The time handle of a cell solver and a monodomain solver that are given
\* the same time argument.
VARIABLES
    user_time,  \* value of the Constant made by the user, in half-ticks
    t_class,    \* per solver: the class whose constructor was called
    t_arg,      \* per solver: the time argument, "None" or "Constant"
    t_ref,      \* per solver: what self._time refers to
    t_own,      \* per solver: value of the Constant made by its constructor
    t_error,    \* per solver: error of the most recent call
    t_last,     \* the most recent call of step
    t_nsteps    \* number of calls of step

timevars == <<user_time, t_class, t_arg, t_ref, t_own, t_error, t_last,
              t_nsteps>>

\* The conductivities of a monodomain solver.
VARIABLES
    mi_solver,        \* "none", the class constructed, or "failed"
    mi_error,         \* error of the constructor
    mi_cell_domains,  \* the cell_domains argument: <<>> for None, else
                      \* <<the set of tags in the mesh function>>
    mi_arg,           \* the M_i argument: <<>> for an expression, else
                      \* <<the set of keys of the dict>>
    cell_keys,        \* the tags of self._cell_domains
    M_i,              \* the keys of self._M_i
    mi_stepped,       \* whether step has been called
    G                 \* the tags whose terms are in the weak form G

mivars == <<mi_solver, mi_error, mi_cell_domains, mi_arg, cell_keys, M_i,
            mi_stepped, G>>

\* The construction of one MultiCellSolver on several MPI processes.
VARIABLES
    rank_pc,             \* position of each rank: "idle", "init" (entered
                         \* __init__), "gather" (rank 0 in comm.gather),
                         \* "constructed", "ValueError" (left __init__ with
                         \* the error), "barrier" (in df.MPI.barrier of
                         \* step), "solve" (past the barrier)
    cell_function_tags,  \* per rank: set(cell_function.array())
    rank_valid_tags,     \* the argument valid_cell_tags
    gathered             \* the ranks whose tags have arrived at rank 0

rankvars == <<rank_pc, cell_function_tags, rank_valid_tags, gathered>>

\* all variables, and for each component the variables of the others
vars == <<cellvars, monovars, eotvars, cmvars, regionvars, timevars, mivars,
          rankvars>>
notcell == <<monovars, eotvars, cmvars, regionvars, timevars, mivars,
             rankvars>>
notmono == <<cellvars, eotvars, cmvars, regionvars, timevars, mivars,
             rankvars>>
noteot == <<cellvars, monovars, cmvars, regionvars, timevars, mivars,
            rankvars>>
notcm == <<cellvars, monovars, eotvars, regionvars, timevars, mivars,
           rankvars>>
notregion == <<cellvars, monovars, eotvars, cmvars, timevars, mivars,
               rankvars>>
nottime == <<cellvars, monovars, eotvars, cmvars, regionvars, mivars,
             rankvars>>
notmi == <<cellvars, monovars, eotvars, cmvars, regionvars, timevars,
           rankvars>>
notrank == <<cellvars, monovars, eotvars, cmvars, regionvars, timevars,
             mivars>>

\* ------------------------------------------------------------------------
\* time_stepper(t0, t1, dt): xalbrain.utils.time_stepper, section 4.2 of
\* the specification: emit (cursor, cursor + dt) and advance the cursor,
\* terminate when cursor + dt exceeds t1 + eps.
\* ------------------------------------------------------------------------
time_stepper_has_next(cursor, t1, dt) == cursor + dt <= t1 + DOLFIN_EPS

time_stepper_interval(cursor, dt) == <<cursor, cursor + dt>>

\* ------------------------------------------------------------------------
\* step(t0, t1) of the three cell solvers.  prev is vs_ at entry, tm the
\* time handle at entry, out the result of the external solve.  The result
\* is the triple of (vs_, vs, time) at return.
\* ------------------------------------------------------------------------
\* BasicCardiacODESolver.step: vs.assign(vs_); time.assign(t0 + theta*(t1 -
\* t0)); the nonlinear solve writes vs.
BasicCardiacODESolver_step(prev, tm, t0, t1, out) ==
    [vs_ |-> prev, vs |-> out, time |-> 2 * t0 + Theta2 * (t1 - t0)]

\* CardiacODESolver.step: vs.assign(vs_); the point integral solver steps vs
\* by dt and advances the time of its scheme, which is the time handle.
CardiacODESolver_step(prev, tm, t0, t1, out) ==
    [vs_ |-> prev, vs |-> out, time |-> tm + 2 * (t1 - t0)]

\* MultiCellSolver.step: time.assign(t0 + theta*(t1 - t0)); the lattice
\* solver integrates the vector of vs_ in place; vs.vector()[:] =
\* vs_.vector()[:].
MultiCellSolver_step(prev, tm, t0, t1, out) ==
    [vs_ |-> out, vs |-> out, time |-> 2 * t0 + Theta2 * (t1 - t0)]

step(k, prev, tm, t0, t1, out) ==
    CASE k = "BasicCardiacODESolver" -> BasicCardiacODESolver_step(prev, tm, t0, t1, out)
      [] k = "CardiacODESolver" -> CardiacODESolver_step(prev, tm, t0, t1, out)
      [] k = "MultiCellSolver" -> MultiCellSolver_step(prev, tm, t0, t1, out)

\* step(t0, t1) when the external solve raises: the statements before the
\* solve have run, the object the solve writes to holds any value out, the
\* statements after it have not run.  curr is vs at entry; adv tells
\* whether the point integral solver had advanced its time.
step_raises(k, prev, curr, tm, t0, t1, out, adv) ==
    CASE k = "BasicCardiacODESolver" ->
             [vs_ |-> prev, vs |-> out, time |-> 2 * t0 + Theta2 * (t1 - t0)]
      [] k = "CardiacODESolver" ->
             [vs_ |-> prev, vs |-> out,
              time |-> IF adv THEN tm + 2 * (t1 - t0) ELSE tm]
      [] k = "MultiCellSolver" ->
             [vs_ |-> out, vs |-> curr, time |-> 2 * t0 + Theta2 * (t1 - t0)]

\* ------------------------------------------------------------------------
\* AbstractCellSolver.solve: the generator
\* ------------------------------------------------------------------------
\* dt = t1 - t0 if dt is None
solve_dt == IF g_dt = <<>> THEN g_t1 - g_t0 ELSE g_dt[1]

\* A yield of a copy of the current field: `yield (_t0, _t1), self.vs.copy()`.
yield_vs_copy(val) == [obj |-> "copy of vs", seen |-> val]

\* The second component of `yield (_t0, _t1), self.vs`: the object the
\* attribute vs is bound to; val is its value at the yield.
yield_vs(val) == [obj |-> fields.vs, seen |-> val]

\* The value read now through a reference to one of the two fields.
value_of(obj) ==
    CASE obj = fields.vs -> vs
      [] obj = fields.vs_ -> vs_

\* The loop body with the yield statement mistyped as
\* `yield (_t0, _t0), self.vs`.
solve_loop_body_yield_t0(iv, prev) ==
    \E out \in FieldVals :
        LET r == step(kind, prev, time, iv[1], iv[2], out) IN
        /\ nsteps < MaxSteps
        /\ vs_' = r.vs_
        /\ vs' = r.vs
        /\ time' = r.time
        /\ step_in' = prev
        /\ step_out' = r.vs_
        /\ step_iv' = iv
        /\ nsteps' = nsteps + 1
        /\ cur' = iv
        /\ yielded' = Append(yielded, <<iv[1], iv[1]>>)
        /\ yielded_vs' = Append(yielded_vs, yield_vs(r.vs))
        /\ gen' = "suspended"
        /\ gen_error' = "none"
        /\ attempts' = attempts + 1
        /\ completed' = r.vs
        /\ UNCHANGED <<fail_prev, start>>

\* Body of the for loop up to the yield: step over the interval iv starting
\* from the previous field prev, then suspend at the yield.
solve_loop_body(iv, prev) ==
    \E out \in FieldVals :
        LET r == step(kind, prev, time, iv[1], iv[2], out) IN
        /\ nsteps < MaxSteps
        /\ vs_' = r.vs_
        /\ vs' = r.vs
        /\ time' = r.time
        /\ step_in' = prev
        /\ step_out' = r.vs_
        /\ step_iv' = iv
        /\ nsteps' = nsteps + 1
        /\ cur' = iv
        /\ yielded' = Append(yielded, iv)
        /\ yielded_vs' = Append(yielded_vs, yield_vs(r.vs))
        /\ gen' = "suspended"
        /\ gen_error' = "none"
        /\ attempts' = attempts + 1
        /\ completed' = r.vs
        /\ UNCHANGED <<fail_prev, start>>

\* The loop body when step raises: the error leaves the generator, which
\* is thereby finished.
solve_loop_raise(iv, prev) ==
    \E out \in FieldVals, adv \in BOOLEAN :
        LET r == step_raises(kind, prev, vs, time, iv[1], iv[2], out, adv) IN
        /\ nsteps < MaxSteps
        /\ vs_' = r.vs_
        /\ vs' = r.vs
        /\ time' = r.time
        /\ nsteps' = nsteps + 1
        /\ gen' = "done"
        /\ gen_error' = "RuntimeError"
        /\ attempts' = attempts + 1
        /\ fail_prev' = r.vs_
        /\ UNCHANGED <<step_in, step_out, step_iv, cur, yielded, yielded_vs,
                       completed, start>>

\* End of the for loop: the statement after it is `assert False`.
solve_loop_end(prev) ==
    /\ vs_' = prev
    /\ gen' = "done"
    /\ gen_error' = "AssertionError"
    /\ UNCHANGED <<vs, time, step_in, step_out, step_iv, nsteps, cur, yielded,
                   yielded_vs, cellhist>>

\* A solve that runs its first step when it is called.
Solve_eager(t0, t1, dt) ==
    /\ gen = "none"
    /\ nsteps = 0
    /\ gen' = "created"
    /\ g_t0' = t0
    /\ g_t1' = t1
    /\ g_dt' = dt
    /\ cur' = <<t0, t0>>
    /\ yielded' = <<>>
    /\ yielded_vs' = <<>>
    /\ gen_error' = "none"
    /\ attempts' = 1
    /\ nsteps' = 1
    /\ completed' = vs_
    /\ fail_prev' = vs_
    /\ start' = [vs_ |-> vs_, vs |-> vs]
    /\ UNCHANGED <<kind, vs_, vs, time, step_in, step_out, step_iv, cellobjs>>

\* Calling solve(t0, t1, dt) on a new solver creates the generator; no
\* statement of the body runs before the first request.
Solve(t0, t1, dt) ==
    /\ gen = "none"
    /\ nsteps = 0
    /\ gen' = "created"
    /\ g_t0' = t0
    /\ g_t1' = t1
    /\ g_dt' = dt
    /\ cur' = <<t0, t0>>
    /\ yielded' = <<>>
    /\ yielded_vs' = <<>>
    /\ gen_error' = "none"
    /\ attempts' = 0
    /\ completed' = vs_
    /\ fail_prev' = vs_
    /\ start' = [vs_ |-> vs_, vs |-> vs]
    /\ UNCHANGED <<kind, vs_, vs, time, nsteps, step_in, step_out, step_iv,
                   cellobjs>>

\* The first request with a step that starts from the current field.
NextFirst_from_current ==
    /\ UNCHANGED notcell
    /\ gen = "created"
    /\ IF time_stepper_has_next(g_t0, g_t1, solve_dt)
           THEN \/ solve_loop_body(time_stepper_interval(g_t0, solve_dt), vs)
                \/ solve_loop_raise(time_stepper_interval(g_t0, solve_dt), vs)
           ELSE solve_loop_end(vs)
    /\ UNCHANGED <<kind, g_t0, g_t1, g_dt, cellobjs>>

\* First request: from the start of the body to the first yield.
NextFirst ==
    /\ UNCHANGED notcell
    /\ gen = "created"
    /\ IF time_stepper_has_next(g_t0, g_t1, solve_dt)
           THEN \/ solve_loop_body(time_stepper_interval(g_t0, solve_dt), vs_)
                \/ solve_loop_raise(time_stepper_interval(g_t0, solve_dt), vs_)
           ELSE solve_loop_end(vs_)
    /\ UNCHANGED <<kind, g_t0, g_t1, g_dt, cellobjs>>

\* The later requests without the copy vs_.assign(vs).
NextResume_no_copy ==
    /\ UNCHANGED notcell
    /\ gen = "suspended"
    /\ IF time_stepper_has_next(cur[2], g_t1, solve_dt)
           THEN \/ solve_loop_body(time_stepper_interval(cur[2], solve_dt), vs_)
                \/ solve_loop_raise(time_stepper_interval(cur[2], solve_dt),
                                    vs_)
           ELSE solve_loop_end(vs_)
    /\ UNCHANGED <<kind, g_t0, g_t1, g_dt, cellobjs>>

\* Later requests: resume after the yield with vs_.assign(vs), then the next
\* interval of the time stepper or the end of the loop.
NextResume ==
    /\ UNCHANGED notcell
    /\ gen = "suspended"
    /\ IF time_stepper_has_next(cur[2], g_t1, solve_dt)
           THEN \/ solve_loop_body(time_stepper_interval(cur[2], solve_dt), vs)
                \/ solve_loop_raise(time_stepper_interval(cur[2], solve_dt), vs)
           ELSE solve_loop_end(vs)
    /\ UNCHANGED <<kind, g_t0, g_t1, g_dt, cellobjs>>

\* A direct call of step(t0, t1) by the user of the solver.
StepCall(t0, t1) ==
    /\ gen = "none"
    /\ nsteps < MaxSteps
    /\ \E out \in FieldVals :
        LET r == step(kind, vs_, time, t0, t1, out) IN
        /\ vs_' = r.vs_
        /\ vs' = r.vs
        /\ time' = r.time
        /\ step_in' = vs_
        /\ step_out' = r.vs_
    /\ step_iv' = <<t0, t1>>
    /\ nsteps' = nsteps + 1
    /\ UNCHANGED <<kind, gen, g_t0, g_t1, g_dt, cur, yielded, yielded_vs,
                   gen_error, cellhist, cellobjs>>

\* Initial conditions are set by assigning to the previous field returned by
\* solution_fields().
AssignPrevious(x) ==
    /\ gen = "none"
    /\ nsteps = 0
    /\ vs_' = x
    /\ UNCHANGED <<kind, vs, time, gen, g_t0, g_t1, g_dt, cur, yielded,
                   yielded_vs, gen_error, nsteps, step_in, step_out, step_iv,
                   cellhist, cellobjs>>

\* solution_fields(): return self.vs_, self.vs
SolutionFields ==
    /\ UNCHANGED notcell
    /\ sf_last' = <<fields>>
    /\ sf_first' = IF sf_first = <<>> THEN <<fields>> ELSE sf_first
    /\ UNCHANGED <<kind, vs_, vs, time, gen, g_t0, g_t1, g_dt, cur, yielded,
                   yielded_vs, gen_error, nsteps, step_in, step_out, step_iv,
                   cellhist, fields>>

\* AbstractCellSolver.__init__: both fields are new Functions (zero), the
\* time handle is the given Constant.
CellInit ==
    /\ kind \in CellSolverKinds
    /\ vs_ = 0
    /\ vs = 0
    /\ time = 0
    /\ gen = "none"
    /\ g_t0 = 0
    /\ g_t1 = 0
    /\ g_dt = <<>>
    /\ cur = <<0, 0>>
    /\ yielded = <<>>
    /\ yielded_vs = <<>>
    /\ gen_error = "none"
    /\ nsteps = 0
    /\ step_in = 0
    /\ step_out = 0
    /\ step_iv = <<0, 0>>
    /\ attempts = 0
    /\ completed = 0
    /\ fail_prev = 0
    /\ start = [vs_ |-> 0, vs |-> 0]
    /\ fields = [vs_ |-> "Function vs_", vs |-> "Function vs"]
    /\ sf_first = <<>>
    /\ sf_last = <<>>

SolveAny ==
    /\ UNCHANGED notcell
    /\ gen = "none"
    /\ nsteps = 0
    /\ \E t0 \in T0Values, dt \in DtArgs :
           \E t1 \in (t0 + DOLFIN_EPS + 1)..(t0 + MaxSpan) : Solve(t0, t1, dt)

StepCallAny ==
    /\ UNCHANGED notcell
    /\ gen = "none"
    /\ nsteps < MaxSteps
    /\ \E t0 \in T0Values, d \in DtValues : StepCall(t0, t0 + d)

AssignPreviousAny ==
    /\ UNCHANGED notcell
    /\ gen = "none"
    /\ nsteps = 0
    /\ \E x \in FieldVals : AssignPrevious(x)

\* ========================================================================
\* Monodomain solvers (src/xalbrain/monodomainsolver.py)
\* ========================================================================
MonoSolverKinds == {"BasicMonodomainSolver", "MonodomainSolver"}

\* timesteps of the monodomain solvers: multiples of the cache tolerance and
\* values just below the next multiple, so that two timesteps differ by
\* less than, exactly, or more than the tolerance
MonoDtValues ==
    {k * TimestepTol + e : k \in 1..MaxDtMult, e \in {0, TimestepTol - 1}}
MonoDtArgs == {<<>>} \cup {<<d>> : d \in MonoDtValues}
\* start times of the monodomain solvers
MonoT0Values == {0, TimestepTol}
\* timesteps and spans of the size of machine epsilon
SmallDtValues == 1..(DOLFIN_EPS + 1)
SmallSpans == 1..(DOLFIN_EPS + 1)

Abs(x) == IF x < 0 THEN -x ELSE x

\* The boundary test written with the start of the interval.
end_of_time_from_t0(T, t0, t1, dt) == (t0 + dt) > (T + DOLFIN_EPS)

\* The boundary test with >= in place of >.
end_of_time_inclusive(T, t0, t1, dt) == (t1 + dt) >= (T + DOLFIN_EPS)

\* end_of_time(T, t0, t1, dt)
end_of_time(T, t0, t1, dt) == (t1 + dt) > (T + DOLFIN_EPS)

\* The comparison of the timesteps written as an exact equality.
timestep_unchanged_exact(dt, ts) == dt = ts

\* timestep_unchanged = (abs(dt - float(self._timestep)) < 1.e-12)
timestep_unchanged(dt, ts) == Abs(dt - ts) < TimestepTol

\* The update routine without the reassembly of the matrix: the new
\* timestep is stored, the operator is the old one.
update_lu_solver_stale(unchanged, dt, st) ==
    IF unchanged
        THEN [st EXCEPT !.assembled = 0]
        ELSE [timestep |-> dt, lhs_matrix |-> st.lhs_matrix,
              prec_matrix |-> st.prec_matrix, assembled |-> 0]

\* The two update routines work on the triple (timestep, lhs_matrix,
\* prec_matrix) and count the assemblies of self._lhs.
\* _update_lu_solver(timestep_unchanged, dt)
update_lu_solver(unchanged, dt, st) ==
    IF unchanged
        THEN [st EXCEPT !.assembled = 0]
        ELSE [timestep |-> dt, lhs_matrix |-> dt,
              prec_matrix |-> st.prec_matrix, assembled |-> 1]

\* _update_krylov_solver(timestep_unchanged, dt)
update_krylov_solver(unchanged, dt, st) ==
    IF unchanged
        THEN [st EXCEPT !.assembled = 0]
        ELSE [timestep |-> dt, lhs_matrix |-> dt,
              prec_matrix |-> IF use_custom_preconditioner THEN dt
                                                           ELSE st.prec_matrix,
              assembled |-> 1]

\* self._update_solver, chosen by _create_linear_solver
update_solver(unchanged, dt, st) ==
    IF solver_type = "direct" THEN update_lu_solver(unchanged, dt, st)
                              ELSE update_krylov_solver(unchanged, dt, st)

\* The time written by a step that sets the handle to the end of the
\* interval.
mono_step_time_end(t0, t1) == 2 * t1

\* t = t0 + theta*(t1 - t0); self.time.assign(t)
mono_step_time(t0, t1) == 2 * t0 + Theta2 * (t1 - t0)

\* MonodomainSolver.step(t0, t1); prev is v_ at entry, out the result of
\* linear_solver.solve
MonodomainSolver_step(prev, t0, t1, out) ==
    LET dt == t1 - t0
        st == update_solver(timestep_unchanged(dt, timestep), dt,
                            [timestep |-> timestep, lhs_matrix |-> lhs_matrix,
                             prec_matrix |-> prec_matrix, assembled |-> 0])
        rhs == [step |-> m_nsteps + 1, k_n |-> st.timestep]
    IN  /\ m_time' = mono_step_time(t0, t1)
        /\ timestep' = st.timestep
        /\ lhs_matrix' = st.lhs_matrix
        /\ prec_matrix' = st.prec_matrix
        /\ rhs_vector' = rhs
        /\ s_lhs' = st.lhs_matrix
        /\ s_rhs' = rhs
        /\ v' = out
        /\ h_dt' = dt
        /\ h_before' = timestep
        /\ h_assembled' = st.assembled
        /\ h_prev_dt' = h_dt
        /\ h_prev_assembled' = h_assembled
        /\ h_rebuilt_dt' = IF st.assembled = 1 THEN dt ELSE h_rebuilt_dt
        /\ m_nsteps' = m_nsteps + 1
        /\ v_' = prev
        /\ m_last' = [v_ |-> prev, v |-> out]

\* BasicMonodomainSolver.step(t0, t1): the forms are built with k_n = t1 - t0
\* and solved by a new LinearVariationalSolver in every call; there is no
\* stored operator.
BasicMonodomainSolver_step(prev, t0, t1, out) ==
    LET dt == t1 - t0 IN
    /\ m_time' = mono_step_time(t0, t1)
    /\ v' = out
    /\ h_dt' = dt
    /\ h_before' = timestep
    /\ h_assembled' = 1
    /\ h_prev_dt' = h_dt
    /\ h_prev_assembled' = h_assembled
    /\ s_lhs' = dt
    /\ s_rhs' = [step |-> m_nsteps + 1, k_n |-> dt]
    /\ m_nsteps' = m_nsteps + 1
    /\ v_' = prev
    /\ m_last' = [v_ |-> prev, v |-> out]
    /\ UNCHANGED <<timestep, lhs_matrix, prec_matrix, rhs_vector, h_rebuilt_dt>>

mono_step(prev, t0, t1) ==
    /\ m_nsteps < MaxMonoSteps
    /\ \E out \in FieldVals :
        IF m_kind = "MonodomainSolver"
            THEN MonodomainSolver_step(prev, t0, t1, out)
            ELSE BasicMonodomainSolver_step(prev, t0, t1, out)

\* A timestep of the size of the cache tolerance when dt is None.
mono_solve_dt_fixed == IF m_dt = <<>> THEN TimestepTol ELSE m_dt[1]

\* dt = t1 - t0 if dt is None
mono_solve_dt == IF m_dt = <<>> THEN m_t1 - m_t0 ELSE m_dt[1]

\* Calling solve(t0, t1, dt) on a new solver creates the generator.
MonoSolve(t0, t1, dt) ==
    /\ m_gen = "none"
    /\ m_nsteps = 0
    /\ m_gen' = "created"
    /\ m_t0' = t0
    /\ m_t1' = t1
    /\ m_dt' = dt
    /\ m_cur' = <<t0, t0>>
    /\ m_yielded' = <<>>
    /\ m_error' = "none"
    /\ UNCHANGED <<monoconfig, monosolver>>

\* First request: _t0 = t0, _t1 = t0 + dt, step, yield.
MonoNextFirst ==
    /\ UNCHANGED notmono
    /\ m_gen = "created"
    /\ mono_step(v_, m_t0, m_t0 + mono_solve_dt)
    /\ m_cur' = <<m_t0, m_t0 + mono_solve_dt>>
    /\ m_yielded' = Append(m_yielded, <<m_t0, m_t0 + mono_solve_dt>>)
    /\ m_gen' = "suspended"
    /\ UNCHANGED <<monoconfig, m_t0, m_t1, m_dt, m_error>>

\* The two assignments in the other order: _t1 = _t0 + dt, then _t0 = _t1.
mono_next_interval_swapped(c, dt) == <<c[1] + dt, c[1] + dt>>

\* _t0 = _t1; _t1 = _t0 + dt
mono_next_interval(c, dt) == <<c[2], c[2] + dt>>

\* The copy v_.assign(v) placed before the test of end_of_time.
MonoNextResume_copy_first ==
    /\ UNCHANGED notmono
    /\ m_gen = "suspended"
    /\ IF end_of_time(m_t1, m_cur[1], m_cur[2], mono_solve_dt)
           THEN /\ m_gen' = "done"
                /\ v_' = IF v_is_Function THEN v ELSE v_
                /\ UNCHANGED <<v, m_time, timestep, lhs_matrix, prec_matrix,
                               rhs_vector, m_nsteps, h_dt, h_before,
                               h_assembled, h_prev_dt, h_prev_assembled,
                               h_rebuilt_dt, s_lhs, s_rhs, m_last, m_cur,
                               m_yielded>>
           ELSE LET n == mono_next_interval(m_cur, mono_solve_dt)
                IN  /\ mono_step(IF v_is_Function THEN v ELSE v_, n[1], n[2])
                    /\ m_cur' = n
                    /\ m_yielded' = Append(m_yielded, n)
                    /\ m_gen' = "suspended"
    /\ UNCHANGED <<monoconfig, m_t0, m_t1, m_dt, m_error>>

\* Later requests: break if end_of_time, else v_.assign(v) (when v_ is a
\* Function), move to the next interval, step, yield.
MonoNextResume ==
    /\ UNCHANGED notmono
    /\ m_gen = "suspended"
    /\ IF end_of_time(m_t1, m_cur[1], m_cur[2], mono_solve_dt)
           THEN /\ m_gen' = "done"
                /\ UNCHANGED <<monosolver, m_cur, m_yielded>>
           ELSE LET n == mono_next_interval(m_cur, mono_solve_dt)
                IN  /\ mono_step(IF v_is_Function THEN v ELSE v_, n[1], n[2])
                    /\ m_cur' = n
                    /\ m_yielded' = Append(m_yielded, n)
                    /\ m_gen' = "suspended"
    /\ UNCHANGED <<monoconfig, m_t0, m_t1, m_dt, m_error>>

\* A direct call of step(t0, t1) by the user of the solver (in runs that do
\* not use solve).
MonoStepCall(t0, t1) ==
    /\ m_gen = "none"
    /\ mono_step(v_, t0, t1)
    /\ UNCHANGED <<monoconfig, monogen>>

\* Initial conditions are set by assigning to the previous field returned by
\* solution_fields().
MonoAssignPrevious(x) ==
    /\ m_gen = "none"
    /\ m_nsteps = 0
    /\ v_' = x
    /\ UNCHANGED <<monoconfig, monogen, v, m_time, timestep, lhs_matrix,
                   prec_matrix, rhs_vector, m_nsteps, h_dt, h_before,
                   h_assembled, h_prev_dt, h_prev_assembled, h_rebuilt_dt,
                   s_lhs, s_rhs, m_last>>

\* BasicMonodomainSolver.__init__, and for MonodomainSolver the rest of
\* MonodomainSolver.__init__: self._timestep = default_timestep, the
\* operator is assembled with it, the right-hand side vector is allocated.
MonoInit ==
    /\ m_kind \in MonoSolverKinds
    /\ v_is_Function \in BOOLEAN
    /\ v_ = 0
    /\ v = 0
    /\ m_time = 0
    /\ IF m_kind = "MonodomainSolver"
           THEN /\ solver_type \in {"direct", "iterative"}
                /\ use_custom_preconditioner \in BOOLEAN
                /\ \E default_timestep \in MonoDtValues :
                       /\ timestep = default_timestep
                       /\ h_rebuilt_dt = default_timestep
                       /\ lhs_matrix = default_timestep
                       /\ prec_matrix = IF solver_type = "iterative"
                                             /\ use_custom_preconditioner
                                            THEN default_timestep ELSE 0
           ELSE /\ solver_type = "direct"
                /\ use_custom_preconditioner = FALSE
                /\ timestep = 0
                /\ h_rebuilt_dt = 0
                /\ lhs_matrix = 0
                /\ prec_matrix = 0
    /\ rhs_vector = [step |-> 0, k_n |-> 0]
    /\ m_nsteps = 0
    /\ h_dt = 0
    /\ h_before = 0
    /\ h_assembled = 0
    /\ h_prev_dt = 0
    /\ h_prev_assembled = 0
    /\ s_lhs = 0
    /\ s_rhs = [step |-> 0, k_n |-> 0]
    /\ m_last = [v_ |-> 0, v |-> 0]
    /\ m_gen = "none"
    /\ m_t0 = 0
    /\ m_t1 = 0
    /\ m_dt = <<>>
    /\ m_cur = <<0, 0>>
    /\ m_yielded = <<>>
    /\ m_error = "none"

MonoSolveAny ==
    /\ UNCHANGED notmono
    /\ m_gen = "none"
    /\ m_nsteps = 0
    /\ \/ \E t0 \in MonoT0Values, dt \in MonoDtArgs, n \in 1..MaxMonoSpan :
              MonoSolve(t0, t0 + n * TimestepTol, dt)
       \/ \E t0 \in MonoT0Values, d \in SmallDtValues, n \in SmallSpans :
              MonoSolve(t0, t0 + n, <<d>>)
       \/ \E t0 \in MonoT0Values, n \in SmallSpans :
              MonoSolve(t0, t0 + n, <<>>)

MonoStepCallAny ==
    /\ UNCHANGED notmono
    /\ m_gen = "none"
    /\ m_nsteps < MaxMonoSteps
    /\ \E t0 \in MonoT0Values, d \in MonoDtValues : MonoStepCall(t0, t0 + d)

MonoAssignPreviousAny ==
    /\ UNCHANGED notmono
    /\ m_gen = "none"
    /\ m_nsteps = 0
    /\ \E x \in FieldVals : MonoAssignPrevious(x)

\* ========================================================================
\* The boundary test end_of_time as a unit: T, t1 and dt are fixed, the test
\* is applied with several t0.
\* ========================================================================
EndOfTimeCall(t0) ==
    /\ eot_calls < MaxEotCalls
    /\ eot_t0' = t0
    /\ eot_result' = end_of_time(eot_T, t0, eot_t1, eot_dt)
    /\ eot_prev' = eot_result
    /\ eot_calls' = eot_calls + 1
    /\ UNCHANGED <<eot_T, eot_t1, eot_dt>>

EotInit ==
    /\ eot_T \in 0..MaxEotT
    /\ eot_t1 \in 0..MaxEotT
    /\ eot_dt \in DtValues
    /\ eot_t0 = 0
    /\ eot_result = FALSE
    /\ eot_prev = FALSE
    /\ eot_calls = 0

\* the start of the interval that ends at t1, and an unrelated start
EndOfTimeCallAny ==
    /\ UNCHANGED noteot
    /\ eot_calls < MaxEotCalls
    /\ \E t0 \in {eot_t1 - eot_dt, 0} : EndOfTimeCall(t0)

\* ========================================================================
\* Cell models (src/xalbrain/cellmodels/cellmodel.py, adex_slow.py).
\* Parameter values are counted in thousandths of their unit, so that
\* b = 0.061 is 61 and spike = 20.0 is 20000.
\* ========================================================================
\* AdexManual.default_parameters()
default_parameters ==
    [C |-> 59000, g_L |-> 2900, E_L |-> -62000, V_T |-> -42000,
     Delta_T |-> 3000, a |-> 16000, tau_w |-> 144000, b |-> 61,
     spike |-> 20000]

\* AdexManual.default_initial_conditions(): V = E_L, w = 0
default_initial_conditions(P) == [V |-> P["E_L"], w |-> 0]

\* potentials next to the default reset threshold, and the default E_L
VoltageValues ==
    {default_parameters["E_L"]} \cup
    ((default_parameters["spike"] - MaxOffset)
         ..(default_parameters["spike"] + MaxOffset))
\* spike-triggered adaptation: none, or the default
BValues == {0, default_parameters["b"]}

\* names and values given to set_parameters and set_initial_conditions:
\* names of the maps and a name that is in neither
ParameterNames == {"E_L", "spike", "conductance"}
InitialConditionNames == {"V", "w", "conductance"}
ValueArgs == VoltageValues \cup BValues

\* def error(arg): print(arg)
error(st) == [st EXCEPT !.printed = TRUE]

\* the body of the loops of set_parameters and set_initial_conditions for
\* one name: error() if the name is not in the map, then the assignment
\* map[name] = value (values are numbers, so the value_size test passes)
set_item(map, name, value) ==
    LET st0 == [printed |-> FALSE, raised |-> FALSE]
        st1 == IF name \notin DOMAIN map THEN error(st0) ELSE st0
    IN  [map |-> [n \in DOMAIN map \cup {name} |->
                      IF n = name THEN value ELSE map[n]],
         printed |-> st1.printed,
         raised |-> st1.raised]

\* CellModel.set_parameters(**params) with one name
set_parameters(name, value) ==
    LET r == set_item(parameters, name, value) IN
    /\ cm_calls < MaxSetCalls
    /\ parameters' = r.map
    /\ cm_printed' = r.printed
    /\ cm_raised' = r.raised
    /\ cm_call' = "set_parameters"
    /\ cm_name' = name
    /\ cm_calls' = cm_calls + 1
    /\ h_parameters' = parameters
    /\ h_initial_conditions' = initial_conditions
    /\ UNCHANGED <<initial_conditions, fieldvars>>

\* CellModel.set_initial_conditions(**init) with one name
set_initial_conditions(name, value) ==
    LET r == set_item(initial_conditions, name, value) IN
    /\ cm_calls < MaxSetCalls
    /\ initial_conditions' = r.map
    /\ cm_printed' = r.printed
    /\ cm_raised' = r.raised
    /\ cm_call' = "set_initial_conditions"
    /\ cm_name' = name
    /\ cm_calls' = cm_calls + 1
    /\ h_parameters' = parameters
    /\ h_initial_conditions' = initial_conditions
    /\ UNCHANGED <<parameters, fieldvars>>

\* The hook with the comparison V >= spike.
update_inclusive(f, P) ==
    [d \in DOMAIN f |->
        IF f[d].V >= P["spike"]
            THEN [V |-> P["E_L"], w |-> f[d].w + P["b"]]
            ELSE f[d]]

\* AdexManual.update(vs), vs given as f: on the dofs where V > spike, V = E_L and w += b
update(f, P) ==
    [d \in DOMAIN f |->
        IF f[d].V > P["spike"]
            THEN [V |-> P["E_L"], w |-> f[d].w + P["b"]]
            ELSE f[d]]

\* a call of model.update(vs) on the field u
UpdateCall ==
    /\ updates < MaxUpdates
    /\ u' = update(u, parameters)
    /\ u_in' = u
    /\ u0' = IF updates = 0 THEN u ELSE u0
    /\ updates' = updates + 1
    /\ UNCHANGED modelvars

\* the fields: per dof a potential and the adaptation variable w = 0
Fields == [1..NumDofs -> [V : VoltageValues, w : {0}]]

\* CellModel.__init__(params) of an AdexManual: both maps get their defaults,
\* then the entries of params override the parameters (set_parameters); no
\* call is on record yet
CellModel_init(params) ==
    /\ parameters = [n \in DOMAIN default_parameters |->
                        IF n \in DOMAIN params THEN params[n]
                                               ELSE default_parameters[n]]
    /\ initial_conditions = default_initial_conditions(default_parameters)
    /\ cm_calls = 0
    /\ cm_call = "none"
    /\ cm_name = "none"
    /\ cm_printed = FALSE
    /\ cm_raised = FALSE
    /\ h_parameters = parameters
    /\ h_initial_conditions = initial_conditions

\* a field that update has not been called on
FieldInit(f) ==
    /\ u = f
    /\ u0 = f
    /\ u_in = f
    /\ updates = 0

\* the field of the model's default initial conditions
DefaultField ==
    [d \in 1..NumDofs |-> default_initial_conditions(default_parameters)]

\* AdexManual() with the default maps
ModelInit ==
    /\ CellModel_init(<<>>)
    /\ FieldInit(DefaultField)

\* AdexManual(params) with any E_L, spike and b, and any field
UpdateInit ==
    /\ \E e \in VoltageValues, sp \in VoltageValues, bb \in BValues :
           CellModel_init([E_L |-> e, spike |-> sp, b |-> bb])
    /\ \E f \in Fields : FieldInit(f)

SetParametersAny ==
    /\ UNCHANGED notcm
    /\ cm_calls < MaxSetCalls
    /\ \E name \in ParameterNames, value \in ValueArgs :
           set_parameters(name, value)

SetInitialConditionsAny ==
    /\ UNCHANGED notcm
    /\ cm_calls < MaxSetCalls
    /\ \E name \in InitialConditionNames, value \in ValueArgs :
           set_initial_conditions(name, value)

UpdateCallAny ==
    /\ UNCHANGED notcm
    /\ UpdateCall

\* ========================================================================
\* Region dispatch: MultiCellModel (cellmodel.py), MultiCellSolver and the
\* MultiCellModel branch of BasicCardiacODESolver.step (cellsolver.py)
\* ========================================================================
Tags == 0..MaxTag
\* num_states() of the cell models of the examples: 1 (AdexManual), 2, 5
NumStatesValues == {1, 2, 5}
\* the key tuples, in nondecreasing order (the order of distinct keys only
\* numbers the models); the constructor does not ask for distinct keys
KeyTuples ==
    {ks \in UNION {[1..m -> Tags] : m \in 1..MaxModels} :
        \A i \in 1..(Len(ks) - 1) : ks[i] <= ks[i + 1]}

Range(f) == {f[i] : i \in DOMAIN f}
Max(S) == CHOOSE m \in S : \A k \in S : k <= m

\* MultiCellModel.num_states(): max(c.num_states() for c in models)
num_states == Max(Range(cell_models))

\* MultiCellModel.__init__(models, keys, markers): stores its arguments
MultiCellModel_init(models, ks, mk) ==
    /\ r_model = "none"
    /\ r_model' = "MultiCellModel"
    /\ cell_models' = models
    /\ keys' = ks
    /\ markers' = mk
    /\ UNCHANGED <<r_solver, valid_cell_tags, r_vs_, r_vs, r_calls,
                   r_error, dispatchvars>>

\* Function(VS): all components zero on every region of the mesh
zero_field == [t \in markers |-> [j \in 0..num_states |-> 0]]

\* MultiCellSolver.__init__(.., cell_function, valid_cell_tags, ..) on one
\* process (rank 0): ValueError unless every valid tag occurs in the mesh
MultiCellSolver_init(valid) ==
    /\ r_model = "MultiCellModel"
    /\ r_solver = "none"
    /\ valid_cell_tags' = valid
    /\ IF ~(valid \subseteq markers)
           THEN /\ r_solver' = "ValueError"
                /\ UNCHANGED <<r_vs_, r_vs>>
           ELSE /\ r_solver' = "MultiCellSolver"
                /\ r_vs_' = zero_field
                /\ r_vs' = zero_field
    /\ UNCHANGED <<markers, r_model, cell_models, keys, r_calls, r_error,
                   dispatchvars>>

\* BasicCardiacODESolver.__init__(mesh, time, model, I_s): the attributes
\* are _mesh, _cell_model, _time, _F, _I_ion, _num_states, VS, vs_, vs,
\* _parameters and _I_s (an attribute _model is set by the single cell
\* solvers only)
BasicCardiacODESolver_init ==
    /\ r_model = "MultiCellModel"
    /\ r_solver = "none"
    /\ r_solver' = "BasicCardiacODESolver"
    /\ r_vs_' = zero_field
    /\ r_vs' = zero_field
    /\ UNCHANGED <<markers, r_model, cell_models, keys, valid_cell_tags,
                   r_calls, r_error, dispatchvars>>

\* BasicCardiacODESolver.step(t0, t1) with a MultiCellModel: vs.assign(vs_),
\* the time is set, then the branch reads model = self._model, an attribute
\* this solver does not have: the call ends with AttributeError before the
\* forms are built
BasicCardiacODESolver_step_regions ==
    /\ r_solver = "BasicCardiacODESolver"
    /\ r_calls < MaxRegionCalls
    /\ r_calls' = r_calls + 1
    /\ r_vs' = r_vs_
    /\ r_error' = "AttributeError"
    /\ UNCHANGED <<markers, r_model, cell_models, keys, r_solver,
                   valid_cell_tags, r_vs_, dispatchvars>>

\* the index argument of F and I: <<>> is None, <<i>> the tag i
IndexArgs == {<<>>} \cup {<<i>> : i \in Tags}

\* self._key_to_cell_model = dict(zip(keys, range(len(keys)))), the models
\* numbered from 1; of two entries with the same key the later one stays
key_to_cell_model ==
    [t \in Range(keys) |->
        CHOOSE i \in DOMAIN keys :
            keys[i] = t /\ \A j \in DOMAIN keys : keys[j] = t => j <= i]

\* The lookup with a default: self._key_to_cell_model.get(index, 0).
dispatch_default(index) ==
    LET st0 == [printed |-> FALSE, raised |-> FALSE]
        st1 == IF index = <<>> THEN error(st0) ELSE st0
    IN  IF index # <<>> /\ index[1] \in DOMAIN key_to_cell_model
            THEN [printed |-> st1.printed, raised |-> "none",
                  value |-> key_to_cell_model[index[1]]]
            ELSE [printed |-> st1.printed, raised |-> "none", value |-> 1]

\* the body shared by MultiCellModel.F and MultiCellModel.I: error() if index
\* is None, then k = self._key_to_cell_model[index], which raises KeyError
\* for None and for a tag that is not a key, then the F or I of model k
dispatch(index) ==
    LET st0 == [printed |-> FALSE, raised |-> FALSE]
        st1 == IF index = <<>> THEN error(st0) ELSE st0
    IN  IF index # <<>> /\ index[1] \in DOMAIN key_to_cell_model
            THEN [printed |-> st1.printed, raised |-> "none",
                  value |-> key_to_cell_model[index[1]]]
            ELSE [printed |-> st1.printed, raised |-> "KeyError", value |-> 0]

\* a call of F (which = "F") or I (which = "I") on the dispatcher
MultiCellModel_call(which, index) ==
    LET r == dispatch(index) IN
    /\ r_model = "MultiCellModel"
    /\ d_call' = which
    /\ d_index' = index
    /\ d_printed' = r.printed
    /\ d_raised' = r.raised
    /\ d_value' = r.value
    /\ UNCHANGED <<markers, r_model, cell_models, keys, r_solver,
                   valid_cell_tags, r_vs_, r_vs, r_calls, r_error>>

\* nothing is constructed yet
RegionInit ==
    /\ d_call = "none"
    /\ d_index = <<>>
    /\ d_printed = FALSE
    /\ d_raised = "none"
    /\ d_value = 0
    /\ markers = {}
    /\ r_model = "none"
    /\ cell_models = <<>>
    /\ keys = <<>>
    /\ r_solver = "none"
    /\ valid_cell_tags = {}
    /\ r_vs_ = <<>>
    /\ r_vs = <<>>
    /\ r_calls = 0
    /\ r_error = "none"

NewMultiCellModel ==
    /\ UNCHANGED notregion
    /\ r_model = "none"
    /\ \E ks \in KeyTuples, mk \in (SUBSET Tags) \ {{}} :
           \E models \in [1..Len(ks) -> NumStatesValues] :
               MultiCellModel_init(models, ks, mk)

\* the same constructor on a mesh that carries every tag; the markers take
\* no part in the lookup of F and I
NewDispatcher ==
    /\ UNCHANGED notregion
    /\ r_model = "none"
    /\ \E ks \in KeyTuples :
           \E models \in [1..Len(ks) -> NumStatesValues] :
               MultiCellModel_init(models, ks, Tags)

NewMultiCellSolver ==
    /\ UNCHANGED notregion
    /\ r_solver = "none"
    /\ \E valid \in (SUBSET Tags) \ {{}} : MultiCellSolver_init(valid)

NewBasicCardiacODESolver ==
    /\ UNCHANGED notregion
    /\ BasicCardiacODESolver_init

RegionStepCall ==
    /\ UNCHANGED notregion
    /\ BasicCardiacODESolver_step_regions

MultiCellModel_F ==
    /\ UNCHANGED notregion
    /\ r_model = "MultiCellModel"
    /\ \E index \in IndexArgs : MultiCellModel_call("F", index)

MultiCellModel_I ==
    /\ UNCHANGED notregion
    /\ r_model = "MultiCellModel"
    /\ \E index \in IndexArgs : MultiCellModel_call("I", index)

\* ========================================================================
\* Specifications: one per component, the other components stay as built
\* ========================================================================
\* ========================================================================
\* The time handle (constructors and step of both solver families)
\* ========================================================================
\* the two solvers of a run: a cell solver and a monodomain solver
Solvers == {"ode", "pde"}
CellSolverClasses ==
    {"BasicCardiacODESolver", "CardiacODESolver", "MultiCellSolver",
     "BasicSingleCellSolver", "SingleCellSolver"}
SolverClasses == [ode |-> CellSolverClasses, pde |-> MonoSolverKinds]
TimeArgs == {"None", "Constant"}

\* the class whose step a solver class runs
step_class(c) ==
    CASE c = "BasicSingleCellSolver" -> "BasicCardiacODESolver"
      [] c = "SingleCellSolver" -> "CardiacODESolver"
      [] OTHER -> c

\* AbstractCellSolver.__init__: create time if not given, otherwise use the
\* given time
AbstractCellSolver_init(arg) ==
    [ref |-> IF arg = "None" THEN "own" ELSE "user", error |-> "none"]

\* BasicSingleCellSolver.__init__ and SingleCellSolver.__init__:
\* assert isinstance(time, df.Constant), then the constructor of the base
BasicSingleCellSolver_init(arg) ==
    IF arg # "Constant" THEN [ref |-> "unset", error |-> "AssertionError"]
                        ELSE AbstractCellSolver_init(arg)

\* BasicMonodomainSolver.__init__: assert isinstance(time, df.Constant) or
\* time is None; self._time = time
BasicMonodomainSolver_init(arg) ==
    [ref |-> IF arg = "None" THEN "None" ELSE "user", error |-> "none"]

solver_init(c, arg) ==
    CASE c \in {"BasicSingleCellSolver", "SingleCellSolver"} ->
             BasicSingleCellSolver_init(arg)
      [] c \in MonoSolverKinds -> BasicMonodomainSolver_init(arg)
      [] OTHER -> AbstractCellSolver_init(arg)

\* the value seen through the time property of solver i: <<>> when there is
\* no Constant behind it
time_of(i) ==
    CASE t_ref[i] = "user" -> <<user_time>>
      [] t_ref[i] = "own" -> <<t_own[i]>>
      [] OTHER -> <<>>

\* the value of the handle when step(t0, t1) of class c returns
step_time(c, tm, t0, t1) ==
    IF c \in MonoSolverKinds
        THEN mono_step_time(t0, t1)
        ELSE step(step_class(c), 0, tm, t0, t1, 0).time

\* Calling the constructor of class c for solver i with the time argument.
Construct(i, c, arg) ==
    LET r == solver_init(c, arg) IN
    /\ t_class' = [t_class EXCEPT ![i] = c]
    /\ t_arg' = [t_arg EXCEPT ![i] = arg]
    /\ t_ref' = [t_ref EXCEPT ![i] = r.ref]
    /\ t_error' = [t_error EXCEPT ![i] = r.error]
    /\ UNCHANGED <<user_time, t_own, t_last, t_nsteps>>

\* step(t0, t1) of solver i: self.time.assign(t) fails when self._time is
\* None.
TimeStep(i, t0, t1) ==
    /\ t_nsteps' = t_nsteps + 1
    /\ IF t_ref[i] = "None"
           THEN /\ t_error' = [t_error EXCEPT ![i] = "AttributeError"]
                /\ t_last' = [solver |-> i, t0 |-> t0, t1 |-> t1,
                              returned |-> FALSE]
                /\ UNCHANGED <<user_time, t_own>>
           ELSE LET t == step_time(t_class[i], time_of(i)[1], t0, t1) IN
                /\ t_error' = [t_error EXCEPT ![i] = "none"]
                /\ t_last' = [solver |-> i, t0 |-> t0, t1 |-> t1,
                              returned |-> TRUE]
                /\ IF t_ref[i] = "user"
                       THEN user_time' = t /\ UNCHANGED t_own
                       ELSE t_own' = [t_own EXCEPT ![i] = t]
                            /\ UNCHANGED user_time
    /\ UNCHANGED <<t_class, t_arg, t_ref>>

TimeInit ==
    /\ user_time = 0
    /\ t_class = [i \in Solvers |-> "none"]
    /\ t_arg = [i \in Solvers |-> "None"]
    /\ t_ref = [i \in Solvers |-> "unset"]
    /\ t_own = [i \in Solvers |-> 0]
    /\ t_error = [i \in Solvers |-> "none"]
    /\ t_last = [solver |-> "ode", t0 |-> 0, t1 |-> 0, returned |-> FALSE]
    /\ t_nsteps = 0

ConstructAny ==
    /\ UNCHANGED nottime
    /\ \E i \in Solvers :
           /\ t_class[i] = "none"
           /\ \E c \in SolverClasses[i], arg \in TimeArgs : Construct(i, c, arg)

TimeStepAny ==
    /\ UNCHANGED nottime
    /\ t_nsteps < MaxTimeSteps
    /\ \E i \in Solvers :
           /\ t_ref[i] # "unset"
           /\ \E t0 \in T0Values, d \in DtValues : TimeStep(i, t0, t0 + d)

\* ========================================================================
\* The conductivities of the monodomain solvers
\* (BasicMonodomainSolver.__init__)
\* ========================================================================
\* the cell_domains argument: None, or a mesh function with some tags
CellDomainsArgs == {<<>>} \cup {<<d>> : d \in (SUBSET Tags) \ {{}}}
\* the M_i argument: one expression, or a dict from tags to expressions
MiArgs == {<<>>} \cup {<<ks>> : ks \in SUBSET Tags}

\* cell_domains = MeshFunction(...); cell_domains.set_all(0) when None
default_cell_domains(cd) == IF cd = <<>> THEN {0} ELSE cd[1]

\* A test that accepts every dict with a key for each tag.
M_i_keys_cover(ks, tags) == tags \subseteq ks

\* assert M_i_keys == cell_keys
M_i_keys_match(ks, tags) == ks = tags

\* the part of BasicMonodomainSolver.__init__ on cell_domains and M_i
BasicMonodomainSolver_init_M_i(cd, mi) ==
    LET tags == default_cell_domains(cd) IN
    IF mi = <<>>
        THEN [error |-> "none", cell_keys |-> tags, M_i |-> tags]
        ELSE IF M_i_keys_match(mi[1], tags)
                 THEN [error |-> "none", cell_keys |-> tags, M_i |-> mi[1]]
                 ELSE [error |-> "AssertionError", cell_keys |-> tags,
                       M_i |-> {}]

\* The loop over the cell tags in BasicMonodomainSolver.step and in
\* MonodomainSolver.variational_forms:
\*     for key in cell_tags:
\*         G = Dt_v_k_n*w*dz(key)
\*         G += ...*dz(key)
\*         G -= ...*dz(key)
\* cell_tags comes from a set, whose order is not fixed; every pass assigns
\* G anew, so the form holds the terms of the tag of the last pass.  The
\* result is the set of forms the loop can end with, each form given by
\* the tags whose terms it holds.
weak_forms(tags) == {{key} : key \in tags}

\* BasicMonodomainSolver(mesh, time, M_i, cell_domains = cd) and
\* MonodomainSolver(...), whose constructor starts with that of its base
\* and then builds the forms with variational_forms
NewMonodomainSolver ==
    /\ UNCHANGED notmi
    /\ mi_solver = "none"
    /\ \E c \in MonoSolverKinds, cd \in CellDomainsArgs, mi \in MiArgs :
           LET r == BasicMonodomainSolver_init_M_i(cd, mi) IN
           /\ mi_solver' = IF r.error = "none" THEN c ELSE "failed"
           /\ mi_error' = r.error
           /\ mi_cell_domains' = cd
           /\ mi_arg' = mi
           /\ cell_keys' = r.cell_keys
           /\ M_i' = r.M_i
           /\ IF r.error = "none" /\ c = "MonodomainSolver"
                  THEN G' \in weak_forms(r.cell_keys)
                  ELSE UNCHANGED G
    /\ UNCHANGED mi_stepped

\* step(t0, t1) of the constructed solver: BasicMonodomainSolver builds
\* the form over the cell tags with M_i[key] in every step,
\* MonodomainSolver uses the forms of its constructor
MiStepCall ==
    /\ UNCHANGED notmi
    /\ mi_solver \in MonoSolverKinds
    /\ cell_keys \subseteq M_i
    /\ mi_stepped' = TRUE
    /\ IF mi_solver = "BasicMonodomainSolver"
           THEN G' \in weak_forms(cell_keys)
           ELSE UNCHANGED G
    /\ UNCHANGED <<mi_solver, mi_error, mi_cell_domains, mi_arg, cell_keys,
                   M_i>>

MiInit ==
    /\ mi_solver = "none"
    /\ mi_error = "none"
    /\ mi_cell_domains = <<>>
    /\ mi_arg = <<>>
    /\ cell_keys = {}
    /\ M_i = {}
    /\ mi_stepped = FALSE
    /\ G = {}

\* ========================================================================
\* MultiCellSolver.__init__ and the barrier of MultiCellSolver.step on
\* several MPI processes (cellsolver.py)
\* ========================================================================
Ranks == 0..MaxRank
RankTags == 0..MaxRankTag

\* all_tags = reduce(or_, all_cell_function_tags)
all_tags == UNION {cell_function_tags[r] : r \in Ranks}

\* The validation evaluated by every rank.
rank_check_every_rank(rank) ==
    IF ~(rank_valid_tags \subseteq all_tags) THEN "ValueError"
    ELSE "constructed"

\* if rank == 0: ... if not set(valid_cell_tags) <= all_tags: raise
\* ValueError; the result is how the rank leaves __init__.
rank_check(rank) ==
    IF rank = 0 /\ ~(rank_valid_tags \subseteq all_tags) THEN "ValueError"
    ELSE "constructed"

\* The program is started on all ranks with the same valid_cell_tags; each
\* rank holds its part of the mesh and of the cell function.
Launch ==
    /\ UNCHANGED notrank
    /\ \A r \in Ranks : rank_pc[r] = "idle"
    /\ rank_pc' = [r \in Ranks |-> "init"]
    /\ cell_function_tags' \in [Ranks -> SUBSET RankTags \ {{}}]
    /\ rank_valid_tags' \in SUBSET RankTags
    /\ gathered' = {}

\* comm.gather(_cell_function_tags, root=0): a rank other than 0 sends its
\* tags and goes on to the end of __init__; rank 0 waits for all of them.
Gather(r) ==
    /\ rank_pc[r] = "init"
    /\ gathered' = gathered \cup {r}
    /\ rank_pc' = [rank_pc EXCEPT ![r] = IF r = 0 THEN "gather"
                                         ELSE rank_check(r)]
    /\ UNCHANGED <<cell_function_tags, rank_valid_tags>>

\* Rank 0 has received the tags of every rank and validates.
RootCheck ==
    /\ UNCHANGED notrank
    /\ rank_pc[0] = "gather"
    /\ gathered = Ranks
    /\ rank_pc' = [rank_pc EXCEPT ![0] = rank_check(0)]
    /\ UNCHANGED <<cell_function_tags, rank_valid_tags, gathered>>

\* step: a rank that has a solver enters df.MPI.barrier(comm).
EnterBarrier(r) ==
    /\ rank_pc[r] = "constructed"
    /\ rank_pc' = [rank_pc EXCEPT ![r] = "barrier"]
    /\ UNCHANGED <<cell_function_tags, rank_valid_tags, gathered>>

\* The barrier returns when every rank has entered it.
LeaveBarrier ==
    /\ UNCHANGED notrank
    /\ \A r \in Ranks : rank_pc[r] = "barrier"
    /\ rank_pc' = [r \in Ranks |-> "solve"]
    /\ UNCHANGED <<cell_function_tags, rank_valid_tags, gathered>>

RankInit ==
    /\ rank_pc = [r \in Ranks |-> "idle"]
    /\ cell_function_tags = [r \in Ranks |-> {}]
    /\ rank_valid_tags = {}
    /\ gathered = {}

GatherAny == UNCHANGED notrank /\ \E r \in Ranks : Gather(r)

EnterBarrierAny == UNCHANGED notrank /\ \E r \in Ranks : EnterBarrier(r)

CellIdle == kind = "BasicCardiacODESolver" /\ CellInit

MonoIdle ==
    /\ m_kind = "BasicMonodomainSolver"
    /\ v_is_Function = TRUE
    /\ MonoInit

EotIdle == eot_T = 0 /\ eot_t1 = 0 /\ eot_dt = DOLFIN_EPS + 1 /\ EotInit

ModelIdle == ModelInit

RegionIdle == RegionInit

TimeIdle == TimeInit

MiIdle == MiInit

RankIdle == RankInit

\* the cell solvers
Init ==
    /\ RankIdle /\ MiIdle /\ TimeIdle /\ MonoIdle /\ EotIdle /\ ModelIdle /\ RegionIdle
    /\ CellInit

Next ==
    \/ SolveAny
    \/ NextFirst
    \/ NextResume
    \/ StepCallAny
    \/ AssignPreviousAny
    \/ SolutionFields

Spec == Init /\ [][Next]_vars

\* the monodomain solvers
InitMono ==
    /\ RankIdle /\ MiIdle /\ TimeIdle /\ CellIdle /\ EotIdle /\ ModelIdle /\ RegionIdle
    /\ MonoInit

NextMono ==
    \/ MonoSolveAny
    \/ MonoNextFirst
    \/ MonoNextResume
    \/ MonoStepCallAny
    \/ MonoAssignPreviousAny

SpecMono == InitMono /\ [][NextMono]_vars

\* the boundary test
InitEot ==
    /\ RankIdle /\ MiIdle /\ TimeIdle /\ CellIdle /\ MonoIdle /\ ModelIdle /\ RegionIdle
    /\ EotInit

NextEot == EndOfTimeCallAny

SpecEot == InitEot /\ [][NextEot]_vars

\* the maps of a cell model
InitModel ==
    /\ RankIdle /\ MiIdle /\ TimeIdle /\ CellIdle /\ MonoIdle /\ EotIdle /\ RegionIdle
    /\ ModelInit

NextModel ==
    \/ SetParametersAny
    \/ SetInitialConditionsAny

SpecModel == InitModel /\ [][NextModel]_vars

\* the update hook of a cell model on any field
InitUpdate ==
    /\ RankIdle /\ MiIdle /\ TimeIdle /\ CellIdle /\ MonoIdle /\ EotIdle /\ RegionIdle
    /\ UpdateInit

NextUpdate == UpdateCallAny

SpecUpdate == InitUpdate /\ [][NextUpdate]_vars

\* region dispatch
InitRegion ==
    /\ RankIdle /\ MiIdle /\ TimeIdle /\ CellIdle /\ MonoIdle /\ EotIdle /\ ModelIdle
    /\ RegionInit

NextRegion ==
    \/ NewMultiCellModel
    \/ NewMultiCellSolver
    \/ NewBasicCardiacODESolver
    \/ RegionStepCall

SpecRegion == InitRegion /\ [][NextRegion]_vars

\* the time handle
InitTime ==
    /\ RankIdle /\ MiIdle
    /\ CellIdle /\ MonoIdle /\ EotIdle /\ ModelIdle /\ RegionIdle
    /\ TimeInit

NextTime ==
    \/ ConstructAny
    \/ TimeStepAny

SpecTime == InitTime /\ [][NextTime]_vars

\* the conductivities
InitConductivity ==
    /\ RankIdle /\ TimeIdle
    /\ CellIdle /\ MonoIdle /\ EotIdle /\ ModelIdle /\ RegionIdle
    /\ MiInit

NextConductivity ==
    \/ NewMonodomainSolver
    \/ MiStepCall

SpecConductivity == InitConductivity /\ [][NextConductivity]_vars

\* the construction of a MultiCellSolver on several ranks
InitRanks ==
    /\ MiIdle /\ TimeIdle /\ CellIdle /\ MonoIdle /\ EotIdle /\ ModelIdle
    /\ RegionIdle
    /\ RankInit

NextRanks ==
    \/ Launch
    \/ GatherAny
    \/ RootCheck
    \/ EnterBarrierAny
    \/ LeaveBarrier

SpecRanks == InitRanks /\ [][NextRanks]_vars

\* calls of F and I on a region dispatcher
InitDispatch == InitRegion

NextDispatch ==
    \/ NewDispatcher
    \/ MultiCellModel_F
    \/ MultiCellModel_I

SpecDispatch == InitDispatch /\ [][NextDispatch]_vars

\* ------------------------------------------------------------------------
\* C1: iterating solve to exhaustion ends normally: when the generator is
\* resumed after the pair of the last interval, it ends without raising an
\* error.
\* ------------------------------------------------------------------------
C1_ExhaustionEndsNormally == gen = "done" => gen_error = "none"

C3_StepKeepsPrevious == nsteps > 0 => step_out = step_in

\* ------------------------------------------------------------------------
\* C4: constructing a MultiCellModel or a MultiCellSolver fails whenever the
\* marker data of the mesh contains a tag that is not registered: an object
\* that was constructed has every tag of the mesh among its registered tags.
\* ------------------------------------------------------------------------
C4_UnregisteredTagFailsConstruction ==
    /\ r_model = "MultiCellModel" => markers \subseteq Range(keys)
    /\ r_solver = "MultiCellSolver" => markers \subseteq valid_cell_tags

\* ------------------------------------------------------------------------
\* C5: set_parameters and set_initial_conditions called with a name that is
\* not a key of the map end in an error and leave the map as it was: the
\* name is not added and no entry changes.
\* ------------------------------------------------------------------------
C5_UnknownNameIsError ==
    /\ (cm_call = "set_parameters" /\ cm_name \notin DOMAIN h_parameters) =>
           (cm_raised /\ parameters = h_parameters)
    /\ (cm_call = "set_initial_conditions"
            /\ cm_name \notin DOMAIN h_initial_conditions) =>
           (cm_raised /\ initial_conditions = h_initial_conditions)

\* ------------------------------------------------------------------------
\* C6: a step of MonodomainSolver assembles the left-hand operator exactly
\* once if its dt differs from the stored timestep by 1e-12 or more, and
\* not at all otherwise; the stored timestep is then the dt of the most
\* recent step that assembled it (default_timestep if none did); a second
\* consecutive step with the same dt assembles nothing.
\* ------------------------------------------------------------------------
C6_RebuildIffTimestepChanged ==
    (m_kind = "MonodomainSolver" /\ m_nsteps > 0) =>
        /\ h_assembled = (IF Abs(h_dt - h_before) >= TimestepTol THEN 1 ELSE 0)
        /\ timestep = (IF h_assembled = 1 THEN h_dt ELSE h_before)
        /\ timestep = h_rebuilt_dt
        /\ (m_nsteps >= 2 /\ h_prev_dt = h_dt => h_assembled = 0)

\* a step rebuilt the operator for a new dt and the next step with the same
\* dt reused it
C6_Witness ==
    /\ m_kind = "MonodomainSolver"
    /\ m_nsteps >= 2
    /\ h_prev_assembled = 1
    /\ h_prev_dt = h_dt
    /\ h_assembled = 0

\* ------------------------------------------------------------------------
\* C7: whenever a step of MonodomainSolver solves the linear system, the
\* operator it solves with was assembled with the stored timestep, that
\* timestep equals the dt of the step within 1e-12, and the right-hand side
\* was assembled in this same step with the same timestep: cache hit or
\* miss, the system solved is the one of this step.
\* ------------------------------------------------------------------------
C7_SolvesWithOperatorOfStep ==
    (m_kind = "MonodomainSolver" /\ m_nsteps > 0) =>
        /\ s_lhs = timestep
        /\ Abs(s_lhs - h_dt) < TimestepTol
        /\ s_rhs.step = m_nsteps
        /\ s_rhs.k_n = s_lhs

\* a cache miss followed by a cache hit with a dt that is not the stored one
C7_Witness ==
    /\ m_kind = "MonodomainSolver"
    /\ m_nsteps >= 2
    /\ h_prev_assembled = 1
    /\ h_assembled = 0
    /\ h_dt # timestep
    /\ s_rhs.step = m_nsteps

\* ------------------------------------------------------------------------
\* C8: region-padding invariant: in a run of the theta-method solver with a
\* MultiCellModel every step is taken, and after it every trailing component
\* s[j], n_k <= j < n, is zero on the dofs of every region k (s[j] is
\* component j + 1 of the field, after v).
\* ------------------------------------------------------------------------
C8_RegionPadding ==
    (r_solver = "BasicCardiacODESolver" /\ r_calls > 0) =>
        /\ r_error = "none"
        /\ \A k \in DOMAIN keys :
               keys[k] \in markers =>
                   \A j \in cell_models[k]..(num_states - 1) :
                       r_vs[keys[k]][j + 1] = 0

\* ------------------------------------------------------------------------
\* C9: AdexManual.update is idempotent for every field and all values of
\* spike, E_L and b: a call of update on a field that update has just
\* returned changes no component.
\* ------------------------------------------------------------------------
C9_UpdateIdempotent == updates >= 2 => u = u_in

\* C9 as amended: update is idempotent for every field and all values of the
\* parameters with E_L <= spike (as the defaults are) or b = 0.
C9_UpdateIdempotentResetBelowSpike ==
    (updates >= 2
        /\ (parameters["E_L"] <= parameters["spike"] \/ parameters["b"] = 0)) =>
        u = u_in

\* a first call has reset a dof and a second call has left the field alone
C9_Witness ==
    /\ updates >= 2
    /\ parameters["E_L"] <= parameters["spike"]
    /\ parameters["b"] # 0
    /\ u0 # u_in
    /\ u = u_in

\* ------------------------------------------------------------------------
\* C10: end_of_time(T, t0, t1, dt) is true exactly when t1 + dt exceeds T by
\* more than machine epsilon; with T = 10*dt it is true for the interval
\* (9*dt, 10*dt) and false for (8*dt, 9*dt); the result does not depend on
\* t0, and the call changes nothing of the solvers.
\* ------------------------------------------------------------------------
C10_EndOfTime ==
    /\ [](eot_calls > 0 =>
            /\ eot_result = (eot_t1 + eot_dt - eot_T > DOLFIN_EPS)
            /\ (eot_T = 10 * eot_dt /\ eot_t1 = 10 * eot_dt => eot_result)
            /\ (eot_T = 10 * eot_dt /\ eot_t1 = 9 * eot_dt => ~eot_result)
            /\ (eot_calls > 1 => eot_result = eot_prev))
    /\ [][eot_calls' # eot_calls => UNCHANGED noteot]_vars

\* the test has classified (9*dt, 10*dt) as the last interval for T = 10*dt
C10_Witness ==
    /\ eot_calls > 1
    /\ eot_T = 10 * eot_dt
    /\ eot_t1 = eot_T
    /\ eot_t0 = 9 * eot_dt
    /\ eot_result

\* ------------------------------------------------------------------------
\* C11: the intervals yielded by BasicMonodomainSolver.solve(t0, t1, dt),
\* t0 < t1, dt > 0, tile the range: the first starts at t0, each has length
\* dt, each starts where the one before ended, and when the run has ended
\* the end of the last interval is within one dt of t1.
\* ------------------------------------------------------------------------
C11_IntervalsTile ==
    m_gen \in {"suspended", "done"} =>
        /\ Len(m_yielded) >= 1
        /\ m_yielded[1][1] = m_t0
        /\ \A i \in 1..Len(m_yielded) :
               m_yielded[i][2] = m_yielded[i][1] + mono_solve_dt
        /\ \A i \in 1..(Len(m_yielded) - 1) :
               m_yielded[i + 1][1] = m_yielded[i][2]
        /\ (m_gen = "done" =>
               Abs(m_t1 - m_yielded[Len(m_yielded)][2]) < mono_solve_dt)

\* C11 as amended: the intervals tile as above, and when the run has ended
\* the last interval ends less than dt before t1 and, in a run of more than
\* one interval, at most DOLFIN_EPS after t1.
C11_IntervalsTileWithinEps ==
    m_gen \in {"suspended", "done"} =>
        /\ Len(m_yielded) >= 1
        /\ m_yielded[1][1] = m_t0
        /\ \A i \in 1..Len(m_yielded) :
               m_yielded[i][2] = m_yielded[i][1] + mono_solve_dt
        /\ \A i \in 1..(Len(m_yielded) - 1) :
               m_yielded[i + 1][1] = m_yielded[i][2]
        /\ (m_gen = "done" =>
               LET b_last == m_yielded[Len(m_yielded)][2] IN
               /\ m_t1 - b_last < mono_solve_dt
               /\ (Len(m_yielded) > 1 => b_last <= m_t1 + DOLFIN_EPS))

\* a run of several intervals has ended, the last one ending after t1
C11_Witness ==
    /\ m_gen = "done"
    /\ Len(m_yielded) >= 2
    /\ m_yielded[Len(m_yielded)][2] > m_t1
    /\ m_yielded[Len(m_yielded)][2] <= m_t1 + DOLFIN_EPS

\* ------------------------------------------------------------------------
\* C12: MultiCellModel.F and MultiCellModel.I never default silently: a call
\* without an index, or with an index that is not a registered key, ends in
\* an error at that call and returns the value of no cell model.
\* ------------------------------------------------------------------------
C12_DispatchNeverDefaults ==
    (d_call # "none" /\ (d_index = <<>> \/ d_index[1] \notin Range(keys))) =>
        /\ d_raised # "none"
        /\ d_value = 0

\* F was called without an index on a dispatcher of two models and raised
C12_Witness ==
    /\ d_call = "F"
    /\ d_index = <<>>
    /\ Len(keys) >= 2
    /\ d_printed
    /\ d_raised = "KeyError"

\* ------------------------------------------------------------------------
\* C13: no retry and no rollback in solve: when step raises on interval i
\* the error reaches the consumer at that request, step has been invoked
\* once for interval i and is not invoked again, the pairs yielded before
\* are the intervals 1..i-1, and the previous field holds the output of the
\* last completed step i-1.
\* ------------------------------------------------------------------------
C13_NoRetryNoRollback ==
    gen_error = "RuntimeError" =>
        /\ gen = "done"
        /\ attempts = Len(yielded) + 1
        /\ \A i \in 1..Len(yielded) :
               yielded[i] = <<g_t0 + (i - 1) * solve_dt, g_t0 + i * solve_dt>>
        /\ fail_prev = completed

\* ------------------------------------------------------------------------
\* C14: a step(t0, t1) of BasicCardiacODESolver, MultiCellSolver,
\* BasicMonodomainSolver or MonodomainSolver that has returned has left the
\* time handle of its solver at t0 + theta*(t1 - t0), and every solver that
\* was constructed with the same handle sees that value.
\* ------------------------------------------------------------------------
C14_StepSetsSharedTime ==
    (t_last.returned
        /\ step_class(t_class[t_last.solver]) \in
               {"BasicCardiacODESolver", "MultiCellSolver"} \cup MonoSolverKinds)
    => /\ time_of(t_last.solver)
              = <<2 * t_last.t0 + Theta2 * (t_last.t1 - t_last.t0)>>
       /\ \A j \in Solvers :
              t_ref[j] = t_ref[t_last.solver] /\ t_ref[j] = "user" =>
                  time_of(j) = time_of(t_last.solver)

\* both solvers were given the user's handle, the handle was moved by a
\* step of the cell solver and then set by a step of the monodomain solver
C14_Witness ==
    /\ t_ref["ode"] = "user"
    /\ t_ref["pde"] = "user"
    /\ t_nsteps = 2
    /\ t_last.solver = "pde"
    /\ t_last.returned
    /\ t_last.t0 > 0
    /\ user_time = 2 * t_last.t0 + Theta2 * (t_last.t1 - t_last.t0)

\* ------------------------------------------------------------------------
\* C16: a BasicSingleCellSolver can be constructed with time = None: the
\* constructor returns and the solver owns a time handle.
\* ------------------------------------------------------------------------
C16_SingleCellTimeNone ==
    (t_class["ode"] = "BasicSingleCellSolver" /\ t_arg["ode"] = "None") =>
        (t_error["ode"] = "none" /\ t_ref["ode"] = "own")

\* ------------------------------------------------------------------------
\* C17: a monodomain solver constructed with time = None has a time handle
\* of its own, and its step does not fail in setting the time.
\* ------------------------------------------------------------------------
C17_MonoTimeNone ==
    (t_class["pde"] \in MonoSolverKinds /\ t_arg["pde"] = "None") =>
        (t_ref["pde"] = "own" /\ t_error["pde"] # "AttributeError")

\* ------------------------------------------------------------------------
\* C15: solution_fields() of a cell solver returns the same two field
\* objects on every call, before and after any steps; the value the
\* previous field holds when solve is called is the state the first step
\* starts from, whatever the current field holds.
\* ------------------------------------------------------------------------
C15_SameFieldsAndInitialState ==
    /\ sf_last # <<>> => sf_last = sf_first /\ sf_last = <<fields>>
    /\ (gen = "suspended" /\ attempts = 1) => step_in = start.vs_

\* the fields were asked for, and the first step of a solve started from
\* the value assigned to the previous field while the current one differed
C15_Witness ==
    /\ sf_last # <<>>
    /\ gen = "suspended"
    /\ attempts = 1
    /\ start.vs # start.vs_
    /\ step_in = start.vs_

\* ------------------------------------------------------------------------
\* C18: solve(t0, t1, dt = None) with t0 < t1 uses dt = t1 - t0, performs
\* exactly one step, over the whole interval (t0, t1), and yields exactly
\* one pair.
\* ------------------------------------------------------------------------
C18_NoneIsOneStep ==
    (m_dt = <<>> /\ m_gen \in {"suspended", "done"}) =>
        /\ m_yielded = <<(<<m_t0, m_t1>>)>>
        /\ m_nsteps = 1
        /\ h_dt = m_t1 - m_t0

\* C18 as amended: the same for an interval longer than DOLFIN_EPS.
C18_NoneIsOneStepAboveEps ==
    (m_dt = <<>> /\ m_gen \in {"suspended", "done"}
        /\ m_t1 - m_t0 > DOLFIN_EPS) =>
        /\ m_yielded = <<(<<m_t0, m_t1>>)>>
        /\ m_nsteps = 1
        /\ h_dt = m_t1 - m_t0

\* a run without dt over two units of the tolerance has ended after one
\* pair
C18_Witness ==
    /\ m_dt = <<>>
    /\ m_gen = "done"
    /\ m_t1 - m_t0 = 2 * TimestepTol
    /\ m_yielded = <<(<<m_t0, m_t1>>)>>
    /\ m_nsteps = 1

\* ------------------------------------------------------------------------
\* C19: solve is lazy, one step per element: creating the sequence runs no
\* step and changes neither the fields nor the time handle; when the
\* consumer holds its k-th element exactly k steps have run, the k-th over
\* the interval of that element; and while the consumer does not ask for
\* an element no step runs and the fields and the time handle stay as they
\* are.
\* ------------------------------------------------------------------------
C19_Lazy ==
    /\ [](gen = "created" =>
              attempts = 0 /\ nsteps = 0 /\ yielded = <<>>
                  /\ vs_ = start.vs_ /\ vs = start.vs)
    /\ [](gen = "suspended" =>
              /\ attempts = Len(yielded)
              /\ nsteps = Len(yielded)
              /\ step_iv = yielded[Len(yielded)]
              /\ \A i \in 1..Len(yielded) :
                     yielded[i][1] = g_t0 + (i - 1) * solve_dt)
    /\ [][((gen = "none" /\ gen' = "created")
               \/ (gen = "suspended" /\ gen' = "suspended"
                      /\ yielded' = yielded))
              => UNCHANGED <<vs_, vs, time, nsteps, attempts>>]_vars

\* the consumer holds the second element of a run and asks for the fields:
\* two steps have run
C19_Witness ==
    /\ gen = "suspended"
    /\ Len(yielded) = 2
    /\ attempts = 2
    /\ nsteps = 2
    /\ sf_last # <<>>

\* ------------------------------------------------------------------------
\* C20: the constructor of a monodomain solver given a dict M_i whose key
\* set differs from the set of cell-domain tags fails, so no step of such a
\* solver ever runs; with the default cell domains the only key set it
\* accepts is {0}.
\* ------------------------------------------------------------------------
C20_ConductivityKeysChecked ==
    /\ (mi_solver # "none" /\ mi_arg # <<>>
            /\ mi_arg[1] # default_cell_domains(mi_cell_domains)) =>
           (mi_solver = "failed" /\ mi_error # "none" /\ ~mi_stepped)
    /\ (mi_solver \in MonoSolverKinds /\ mi_arg # <<>>
            /\ mi_cell_domains = <<>>) => mi_arg[1] = {0}

\* a dict with a key more than the tags of the mesh was rejected
C20_Witness ==
    /\ mi_solver = "failed"
    /\ mi_cell_domains # <<>>
    /\ mi_arg # <<>>
    /\ mi_cell_domains[1] \subseteq mi_arg[1]
    /\ mi_cell_domains[1] # mi_arg[1]

\* ------------------------------------------------------------------------
\* C21: for models (m_0 .. m_(K-1)) registered with keys (k_0 .. k_(K-1)),
\* a call of F or I with index = k_j returns the F or I of m_j, for every
\* position j.
\* ------------------------------------------------------------------------
C21_DispatchToRegisteredModel ==
    (d_call # "none" /\ d_index # <<>>) =>
        \A j \in DOMAIN keys :
            keys[j] = d_index[1] => (d_raised = "none" /\ d_value = j)

\* ------------------------------------------------------------------------
\* C23: the weak form built by BasicMonodomainSolver.step and by
\* MonodomainSolver.variational_forms holds the terms of every cell tag of
\* the mesh: no region's contribution is missing.
\* ------------------------------------------------------------------------
C23_FormCoversEveryTag ==
    (mi_solver = "MonodomainSolver"
        \/ (mi_solver = "BasicMonodomainSolver" /\ mi_stepped)) =>
        G = cell_keys

\* ------------------------------------------------------------------------
\* C24: no interval stepped and yielded by BasicMonodomainSolver.solve(t0,
\* t1, dt) ends after t1, also when dt > t1 - t0: every yielded (a, b) has
\* b <= t1 up to machine epsilon.
\* ------------------------------------------------------------------------
C24_NoIntervalPastT1 ==
    \A i \in 1..Len(m_yielded) : m_yielded[i][2] <= m_t1 + DOLFIN_EPS

\* ------------------------------------------------------------------------
\* C25: within one solve run current is copied to previous between steps:
\* at entry to the step for interval i+1 the previous field equals the
\* current field that was yielded for interval i.
\* ------------------------------------------------------------------------
C25_CopyBetweenSteps ==
    [][(gen = "suspended" /\ gen' = "suspended"
            /\ Len(yielded') = Len(yielded) + 1)
          => step_in' = vs]_vars

\* the second step of a run has started from the result of the first, which
\* was not the state the run started from
C25_Witness ==
    /\ gen = "suspended"
    /\ Len(yielded) = 2
    /\ kind # "MultiCellSolver"
    /\ step_in # start.vs_
    /\ vs_ = step_in

\* ------------------------------------------------------------------------
\* C26: BasicMonodomainSolver.solve(t0, t1, dt) ends after calling step and
\* yielding exactly max(1, floor((t1 - t0)/dt)) times.
\* ------------------------------------------------------------------------
C26_StepCount ==
    LET N == Max({1, (m_t1 - m_t0) \div mono_solve_dt}) IN
    m_gen \in {"suspended", "done"} =>
        /\ Len(m_yielded) <= N
        /\ m_nsteps = Len(m_yielded)
        /\ (m_gen = "done" => Len(m_yielded) = N)

\* C26 as amended: the number of steps and of pairs is
\* max(1, floor((t1 + DOLFIN_EPS - t0)/dt)).
C26_StepCountWithinEps ==
    LET N == Max({1, (m_t1 + DOLFIN_EPS - m_t0) \div mono_solve_dt}) IN
    m_gen \in {"suspended", "done"} =>
        /\ Len(m_yielded) <= N
        /\ m_nsteps = Len(m_yielded)
        /\ (m_gen = "done" => Len(m_yielded) = N)

\* a run over three units with a timestep of one unit has ended after
\* three pairs
C26_Witness ==
    /\ m_gen = "done"
    /\ m_dt # <<>>
    /\ m_t1 - m_t0 = 3 * mono_solve_dt
    /\ mono_solve_dt > DOLFIN_EPS
    /\ Len(m_yielded) = 3

\* ------------------------------------------------------------------------
\* C27: when BasicMonodomainSolver.solve has been iterated to exhaustion,
\* v_ holds the state the last step started from and v holds its output:
\* no copy v_ := v follows the last step, so v_ = v only if that step
\* changed nothing.
\* ------------------------------------------------------------------------
C27_NoCopyAfterLastStep ==
    m_gen = "done" =>
        /\ v_ = m_last.v_
        /\ v = m_last.v
        /\ (v_ = v => m_last.v_ = m_last.v)

\* a run of two steps has ended; the second step started from the output
\* of the first and changed it
C27_Witness ==
    /\ m_gen = "done"
    /\ Len(m_yielded) = 2
    /\ v_is_Function
    /\ v_ = 1
    /\ v = 0

\* ------------------------------------------------------------------------
\* C28: the state delivered with every element of a cell-solver solve run
\* is the solver's current-field object vs, the same for all elements, not
\* a snapshot: the value seen through an element received earlier is the
\* solver's current state after any later step.
\* ------------------------------------------------------------------------
C28_YieldsLiveField ==
    /\ Len(yielded_vs) = Len(yielded)
    /\ \A i \in 1..Len(yielded_vs) :
           /\ yielded_vs[i].obj = fields.vs
           /\ value_of(yielded_vs[i].obj) = vs

\* the consumer holds the second element; the first was delivered with
\* another value than the field has now
C28_Witness ==
    /\ gen = "suspended"
    /\ Len(yielded_vs) = 2
    /\ yielded_vs[1].seen # vs
    /\ yielded_vs[2].seen = vs

\* ------------------------------------------------------------------------
\* C29: with several MPI ranks the cell-tag validation of the
\* MultiCellSolver constructor is evaluated on rank 0 only: when it fails,
\* rank 0 raises and every other rank completes construction without
\* error, so ranks disagree on whether the solver exists before the
\* barrier in step (which then no rank passes).
\* ------------------------------------------------------------------------
C29_ValidationOnRankZeroOnly ==
    /\ \A r \in Ranks \ {0} : rank_pc[r] # "ValueError"
    /\ rank_pc[0] = "ValueError" => ~(rank_valid_tags \subseteq all_tags)
    /\ rank_pc[0] \in {"constructed", "barrier", "solve"}
           => rank_valid_tags \subseteq all_tags
    /\ rank_pc[0] = "ValueError"
           => \A r \in Ranks \ {0} : rank_pc[r] \in {"constructed", "barrier"}

\* rank 0 has raised and another rank waits in the barrier of step
C29_Witness ==
    /\ rank_pc[0] = "ValueError"
    /\ \E r \in Ranks \ {0} : rank_pc[r] = "barrier"

\* ------------------------------------------------------------------------
\* C30: in a cell-solver solve run the copy of the current field into the
\* previous one for interval k happens only when the generator is resumed
\* after the k-th yield: while the consumer holds the k-th element vs_ is
\* the state at the start of interval k, which is where a step started then
\* begins, and it differs from vs whenever the step changed the state.
\* ------------------------------------------------------------------------
C30_PreviousHeldBackAtYield ==
    gen = "suspended" =>
        /\ step_iv = yielded[Len(yielded)]
        /\ vs_ = step_in
        /\ (vs # step_in => vs_ # vs)

====
